---- MODULE Spec2Model ----
(***************************************************************************)
(* Model of the camera transport (DahuaCamera) and the camera registry     *)
(* (DahuaCameraManager) of dahua_mcp/dahua_client.py, of the tools         *)
(* get_system_info and search_logs of dahua_mcp/dahua_tools.py, and of the *)
(* two middlewares of dahua_mcp/dahua_middlewares.py.                      *)
(*                                                                         *)
(* Spec and FairSpec run the transports, RegSpec the registry over every   *)
(* small configuration, ToolSpec the tools over the transports, MwSpec the *)
(* middlewares.                                                            *)
(*                                                                         *)
(* The program runs on one asyncio event loop: a coroutine is interrupted  *)
(* only at an await that really suspends.  _ensure_client has no such      *)
(* await, so "ensure client, then call client.get" is one atomic step; the *)
(* suspension points are `await self.client.get(...)` (lines 49, 57, 67)   *)
(* and `await self.client.aclose()` (line 40).                             *)
(***************************************************************************)
EXTENDS Integers, Sequences, FiniteSets, TLC

\* ---- bounds of the model ------------------------------------------------
NumCams == 2        \* cameras in the registry, in registration order 1..NumCams
NumTasks == 2       \* concurrent callers issuing fetch operations
NumClosers == 2     \* concurrent callers of close_all
MaxReqs == 2        \* fetch operations started in a run
MaxCloseAlls == 2   \* close_all calls started in a run
MaxCalls == 2       \* tool calls started in a run
MaxMwCalls == 2     \* requests through a middleware in a run
MaxEntries == 2     \* entries of the "cameras" list of the file
MaxTwinReqs == 2    \* fetch operations of each of two transports run side by side
MaxTwinCloses == 1  \* closes of each of them
MaxGateCalls == 2   \* tools/call and tools/list requests through a middleware
MaxTextLines == 2   \* lines of a text given to parse_dahua_response
MaxPrefixes == 2    \* prefixes "table." / "status." a key starts with
MaxLines == 1       \* lines of a startFind response

\* ---- program constants --------------------------------------------------
Timeout == 20       \* DahuaCamera.__init__(timeout=20)

Cams == 1..NumCams
Tasks == 1..NumTasks
Closers == 1..NumClosers
None == 0
Ops == {"get_parsed", "get_raw", "get_bytes"}
\* what the camera may answer; 0 stands for "no HTTP response" (DNS failure,
\* connection refused, timeout, connection torn down under the request)
Statuses == {200, 401, 500}
NoResponse == 0

VARIABLES
    client,     \* client[c]: DahuaCamera.client, None or the id of a connection
    conns,      \* conns[c]: every httpx.AsyncClient the transport c created, by id
    born,       \* born[c][i]: value of epoch[c] when connection i was created
    epoch,      \* epoch[c]: number of times close assigned client = None
    had401,     \* had401[c]: some request of c got a 401 on a Digest connection
    req,        \* req[t]: the fetch operation of caller t
    started,    \* started[c]: fetch operations started on transport c so far
    cl,         \* cl[k]: the close_all call of caller k
    ncl,        \* close_all calls started so far
    cfg,        \* DahuaConfig.cameras: the configured identities, in order
    cameras,    \* DahuaCameraManager._cameras: the dict, in insertion order
    rout,       \* what the last get_camera / list_cameras call gave
    tool,       \* tool[t]: the tool call of caller t
    ncalls,     \* tool calls started so far
    dtags,      \* DisabledTagsMiddleware.disabled_tags
    disabled,   \* the components on which disable() was called
    mwout,      \* what the last request through a middleware came to
    nmw,        \* requests that went through a middleware so far
    raw,        \* what _load_cameras_file gives for the cameras file
    boot,       \* how far startup has come, and the error that ended it
    inp,        \* the argument of a call of a function of utils.py
    ret,        \* what that call returned
    called,     \* the last tools/call that went through a middleware
    listed      \* the last tools/list that went through a middleware

vars == <<client, conns, born, epoch, had401, req, started, cl, ncl,
          cfg, cameras, rout, tool, ncalls, dtags, disabled, mwout, nmw,
          raw, boot, inp, ret, called, listed>>

\* the state of the transports; the state of the registry
tvars == <<client, conns, born, epoch, had401, req, started, cl, ncl>>
regvars == <<cfg, cameras, rout>>
\* the state of the tool calls
toolvars == <<tool, ncalls>>
\* the state of the middlewares and of the components they guard
mwvars == <<dtags, disabled, mwout, nmw>>
\* the cameras file and the state of startup
bootvars == <<raw, boot>>
\* a call of parse_bool or parse_dahua_response
codecvars == <<inp, ret>>
\* the tools of the server behind a middleware
gatevars == <<called, listed>>

\* ---- pure helpers translated from the source ----------------------------

\* variants of NewClient: Basic credentials; no timeout
NewClientBasic == [auth |-> "Basic", timeout |-> Timeout, closed |-> FALSE]
NewClientNoTimeout == [auth |-> "Digest", timeout |-> 0, closed |-> FALSE]

\* httpx.AsyncClient(base_url, auth=DigestAuth(...), verify, timeout)
NewClient == [auth |-> "Digest", timeout |-> Timeout, closed |-> FALSE]

\* an httpx client gives up on a silent peer only when it has a deadline
HasTimeout(cn) == cn.timeout > 0

\* variant of EnsureClient without the `is None` test
EnsureClientAlways(h, n) == n + 1

\* _ensure_client: the handle after the call, n = connections created so far
EnsureClient(h, n) == IF h = None THEN n + 1 ELSE h

\* close: the guard `if self.client is not None`
NeedsClose(h) == h # None

\* variant of Released in which close forgets the aclose
ReleasedNot(cs, h) == cs

\* close: the effect of client.aclose() on the connections of one transport
Released(cs, h) == [cs EXCEPT ![h].closed = TRUE]

\* Response.raise_for_status: only 2xx passes
IsSuccess(s) == s >= 200 /\ s < 300

\* how each operation decodes a successful body
Decode(op) ==
    CASE op = "get_parsed" -> "mapping"
      [] op = "get_raw" -> "text"
      [] op = "get_bytes" -> "bytes"

\* variant of Outcome without raise_for_status: the body of any response
\* is decoded
OutcomeNoRaise(op, r) ==
    IF r = NoResponse THEN "TransportError" ELSE Decode(op)

\* variant of Outcome in which get_bytes skips raise_for_status
OutcomeBytesUnchecked(op, r) ==
    IF r = NoResponse THEN "TransportError"
    ELSE IF IsSuccess(r) \/ op = "get_bytes" THEN Decode(op)
    ELSE "HTTPStatusError"

\* what get_parsed / get_raw / get_bytes end with, given the response
Outcome(op, r) ==
    IF r = NoResponse THEN "TransportError"
    ELSE IF IsSuccess(r) THEN Decode(op)
    ELSE "HTTPStatusError"

\* variant of Attempts in which a failed request is sent once more
AttemptsRetryOnError(n, r) == IF r # NoResponse /\ IsSuccess(r) THEN n ELSE n + 1

\* HTTP requests one operation has issued once the response r to its
\* `client.get` is in: the call stands outside any loop and
\* raise_for_status ends the operation
Attempts(n, r) == n

IdleReq ==
    [pc |-> "idle", cam |-> 1, op |-> "get_parsed", conn |-> None, epoch |-> 0,
     sent |-> 0, silent |-> FALSE, resp |-> NoResponse, res |-> "none",
     after401 |-> FALSE, got401d |-> FALSE]

\* fetch operations started so far on all transports
RECURSIVE SumTo(_, _)
SumTo(f, n) == IF n = 0 THEN 0 ELSE f[n] + SumTo(f, n - 1)
NumStarted == SumTo(started, NumCams)

IdleCl == [pc |-> "idle", pos |-> 0, conn |-> None]

\* ---- the camera registry --------------------------------------------------

\* camera names are strings, modelled as sequences of code points
\* ("Ca", "c", "ca"); str comparison and sorted() go by code point
Names == {<<67, 97>>, <<99>>, <<99, 97>>}
Hosts == {"10.0.0.1", "10.0.0.2"}
Ports == {80, 443, 8443}
\* username, password, verify_ssl, type of a CameraConfig
Credentials ==
    {[username |-> "admin", password |-> "p1", verify_ssl |-> FALSE, type |-> "camera"],
     [username |-> "admin", password |-> "p2", verify_ssl |-> TRUE, type |-> "camera"],
     [username |-> "root", password |-> "p1", verify_ssl |-> TRUE, type |-> "nvr"]}

\* CameraConfig(name, host, port, username, password, verify_ssl, type)
CameraConfig(n, h, p, cr) ==
    [name |-> n, host |-> h, port |-> p, username |-> cr.username,
     password |-> cr.password, verify_ssl |-> cr.verify_ssl, type |-> cr.type]

\* str.lower on one code point (ASCII letters)
Lower(ch) == IF ch >= 65 /\ ch <= 90 THEN ch + 32 ELSE ch
LowerStr(a) == [i \in 1..Len(a) |-> Lower(a[i])]

\* a < b for two str values: lexicographic on code points
RECURSIVE Less(_, _)
Less(a, b) ==
    IF a = <<>> THEN b # <<>>
    ELSE IF b = <<>> THEN FALSE
    ELSE IF Head(a) # Head(b) THEN Head(a) < Head(b)
    ELSE Less(Tail(a), Tail(b))

\* sorted(): x put at its place in the sorted sequence s
RECURSIVE Insert(_, _)
Insert(x, s) ==
    IF s = <<>> THEN <<x>>
    ELSE IF Less(x, Head(s)) THEN <<x>> \o s
    ELSE <<Head(s)>> \o Insert(x, Tail(s))

RECURSIVE Sorted(_)
Sorted(s) == IF s = <<>> THEN <<>> ELSE Insert(s[Len(s)], Sorted(SubSeq(s, 1, Len(s) - 1)))

\* variant of Protocol that goes by the look of the port number
ProtocolBySuffix(port) == IF port % 1000 = 443 THEN "https" ELSE "http"

\* DahuaCamera.__init__: protocol = "https" if config.port == 443 else "http"
Protocol(port) == IF port = 443 THEN "https" ELSE "http"

\* DahuaCamera.__init__: base_url = f"{protocol}://{config.host}:{config.port}"
BaseUrl(config) == [scheme |-> Protocol(config.port), host |-> config.host, port |-> config.port]

\* DahuaCamera(config, timeout); its client is the variable client
DahuaCamera(config, timeout) ==
    [config |-> config, timeout |-> timeout, base_url |-> BaseUrl(config)]

\* the keys of the dict, in insertion order
Keys(reg) == [i \in 1..Len(reg) |-> reg[i].key]
KeySet(reg) == {reg[i].key : i \in 1..Len(reg)}
IndexOf(reg, name) == CHOOSE i \in 1..Len(reg) : reg[i].key = name

\* variant of Put that keeps the transport a name already has
PutKeepFirst(reg, key, cam) ==
    IF key \in KeySet(reg) THEN reg ELSE Append(reg, [key |-> key, cam |-> cam])

\* self._cameras[key] = cam: a new key goes to the end, a known key keeps
\* its place and takes the new value
Put(reg, key, cam) ==
    IF key \in KeySet(reg)
    THEN [reg EXCEPT ![IndexOf(reg, key)].cam = cam]
    ELSE Append(reg, [key |-> key, cam |-> cam])

\* DahuaCameraManager.__init__: one DahuaCamera per entry of config.cameras
RECURSIVE Build(_, _)
Build(cs, timeout) ==
    IF cs = <<>> THEN <<>>
    ELSE LET last == cs[Len(cs)]
         IN  Put(Build(SubSeq(cs, 1, Len(cs) - 1), timeout), last.name,
                 DahuaCamera(last, timeout))

\* variant of GetCamera that ignores letter case
GetCameraAnyCase(reg, name) ==
    LET hits == {i \in 1..Len(reg) : LowerStr(reg[i].key) = LowerStr(name)}
    IN  IF hits = {}
        THEN [kind |-> "ValueError", name |-> name, available |-> Sorted(Keys(reg)),
              cam |-> <<>>, idx |-> 0]
        ELSE [kind |-> "ok", name |-> name, available |-> <<>>,
              cam |-> <<reg[CHOOSE i \in hits : TRUE].cam>>,
              idx |-> CHOOSE i \in hits : TRUE]

\* variant of GetCamera that falls back to the first camera
GetCameraOrFirst(reg, name) ==
    LET i == IF name \in KeySet(reg) THEN IndexOf(reg, name) ELSE 1
    IN  [kind |-> "ok", name |-> name, available |-> <<>>,
         cam |-> <<reg[i].cam>>, idx |-> i]

\* DahuaCameraManager.get_camera: the transport of that name, or ValueError
\* "Camera '<name>' not found. Available cameras: <sorted names>"
GetCamera(reg, name) ==
    IF name \notin KeySet(reg)
    THEN [kind |-> "ValueError", name |-> name, available |-> Sorted(Keys(reg)),
          cam |-> <<>>, idx |-> 0]
    ELSE [kind |-> "ok", name |-> name, available |-> <<>>,
          cam |-> <<reg[IndexOf(reg, name)].cam>>, idx |-> IndexOf(reg, name)]

\* variant of ListCameras that lists by sorted name
ListCamerasSorted(reg) ==
    [i \in 1..Len(reg) |->
        LET c == reg[IndexOf(reg, Sorted(Keys(reg))[i])].cam.config
        IN  [name |-> c.name, host |-> c.host, port |-> c.port]]

\* variant of ListCameras that also gives the username
ListCamerasWithUser(reg) ==
    [i \in 1..Len(reg) |->
        [name |-> reg[i].cam.config.name, host |-> reg[i].cam.config.host,
         port |-> reg[i].cam.config.port, username |-> reg[i].cam.config.username]]

\* DahuaCameraManager.list_cameras
ListCameras(reg) ==
    [i \in 1..Len(reg) |->
        [name |-> reg[i].cam.config.name, host |-> reg[i].cam.config.host,
         port |-> reg[i].cam.config.port]]

\* the configuration of the transports above: camera c is called "c<k>",
\* the names running against the registration order
RECURSIVE DefaultCameras(_)
DefaultCameras(n) ==
    IF n = 0 THEN <<>>
    ELSE Append(DefaultCameras(n - 1),
                CameraConfig(<<99, 48 + NumCams + 1 - n>>, "10.0.0.1",
                             IF n = 2 THEN 443 ELSE 80,
                             CHOOSE cr \in Credentials : cr.password = "p2"))

NoCall == [op |-> "none", name |-> <<>>, kind |-> "none", available |-> <<>>,
           cam |-> <<>>, list |-> <<>>]

\* the registry after DahuaCameraManager(config), no call made yet
RegInit(cs) ==
    /\ cfg = cs
    /\ cameras = Build(cs, Timeout)
    /\ rout = NoCall

\* the transports after construction: no client, nothing in flight
TransportInit ==
    /\ client = [c \in Cams |-> None]
    /\ conns = [c \in Cams |-> <<>>]
    /\ born = [c \in Cams |-> <<>>]
    /\ epoch = [c \in Cams |-> 0]
    /\ had401 = [c \in Cams |-> FALSE]
    /\ req = [t \in Tasks |-> IdleReq]
    /\ started = [c \in Cams |-> 0]
    /\ cl = [k \in Closers |-> IdleCl]
    /\ ncl = 0

\* no tool call made yet
IdleTool ==
    [pc |-> "idle", tool |-> "none", name |-> <<>>, issued |-> <<>>,
     gotStart |-> FALSE, raw |-> <<>>, token |-> <<>>, gotFind |-> FALSE,
     find |-> <<>>, stop |-> "none", error |-> <<>>, value |-> <<>>,
     attached |-> <<>>, afterNotFound |-> FALSE]

ToolInit == tool = [t \in Tasks |-> IdleTool] /\ ncalls = 0

\* ---- the middlewares: pure parts ------------------------------------------

Kinds == {"tool", "resource", "prompt"}
\* the tag sets of the tools register_tools defines, and no tag at all
TagSets == {{}, {"read-only"}, {"write"}, {"write", "destructive"}}
TagUniverse == {"read-only", "write", "destructive"}
\* one component of each kind for each tag set
Components == [kind : Kinds, tags : TagSets]
Middlewares == {"read-only", "disabled-tags"}

\* ToolError, ResourceError, PromptError
ErrorOfKind(kind) ==
    CASE kind = "tool" -> "ToolError"
      [] kind = "resource" -> "ResourceError"
      [] kind = "prompt" -> "PromptError"

\* variant of LacksReadOnly that turns away only what is tagged as writing
LacksReadOnlyIfWrite(tags) == "write" \in tags

\* ReadOnlyTagMiddleware: `if "read-only" not in tags`
LacksReadOnly(tags) == "read-only" \notin tags

\* variant of HasDisabledTag that asks for every disabled tag
HasDisabledTagAll(dt, tags) == dt # {} /\ dt \subseteq tags

\* DisabledTagsMiddleware._has_disabled_tag
HasDisabledTag(dt, tags) == (dt \cap tags) # {}

\* the test either middleware makes on the tags of the component asked for
Rejects(mw, dt, tags) ==
    IF mw = "read-only" THEN LacksReadOnly(tags) ELSE HasDisabledTag(dt, tags)

NoRequest ==
    [mw |-> "none", kind |-> "none", tags |-> {}, ctx |-> FALSE,
     outcome |-> "none", message |-> "none", found |-> {}, nexts |-> 0,
     passed |-> {}, next |-> "none", returned |-> "none"]

\* no request has gone through a middleware, nothing was disabled
MwInit(dt) == dtags = dt /\ disabled = {} /\ mwout = NoRequest /\ nmw = 0

\* ---- utils.py: pure parts --------------------------------------------------

\* a string is the sequence of its characters
TableDot == <<"t", "a", "b", "l", "e", ".">>
StatusDot == <<"s", "t", "a", "t", "u", "s", ".">>

\* str.strip(): the white space of the texts here
Whitespace == {" ", "\t", "\n", "\r"}
RECURSIVE LStrip(_)
LStrip(x) ==
    IF x # <<>> /\ Head(x) \in Whitespace THEN LStrip(Tail(x)) ELSE x
RECURSIVE RStrip(_)
RStrip(x) ==
    IF x # <<>> /\ x[Len(x)] \in Whitespace
    THEN RStrip(SubSeq(x, 1, Len(x) - 1))
    ELSE x
StripStr(x) == RStrip(LStrip(x))

\* str.splitlines(): "\n", "\r" and "\r\n" end a line; cur is the line
\* read so far
RECURSIVE SplitFrom(_, _)
SplitFrom(x, cur) ==
    IF x = <<>> THEN (IF cur = <<>> THEN <<>> ELSE <<cur>>)
    ELSE IF Head(x) = "\r" /\ Len(x) >= 2 /\ x[2] = "\n"
    THEN <<cur>> \o SplitFrom(Tail(Tail(x)), <<>>)
    ELSE IF Head(x) \in {"\n", "\r"}
    THEN <<cur>> \o SplitFrom(Tail(x), <<>>)
    ELSE SplitFrom(Tail(x), Append(cur, Head(x)))
Splitlines(x) == SplitFrom(x, <<>>)

\* "=" in line
HasEq(line) == \E i \in 1..Len(line) : line[i] = "="

\* variant of SplitFirst that splits on the last "="
SplitLast(line) ==
    LET i == CHOOSE k \in 1..Len(line) :
                line[k] = "=" /\ \A j \in (k + 1)..Len(line) : line[j] # "="
    IN  [key |-> SubSeq(line, 1, i - 1), value |-> SubSeq(line, i + 1, Len(line))]

\* line.split("=", 1)
SplitFirst(line) ==
    LET i == CHOOSE k \in 1..Len(line) :
                line[k] = "=" /\ \A j \in 1..(k - 1) : line[j] # "="
    IN  [key |-> SubSeq(line, 1, i - 1), value |-> SubSeq(line, i + 1, Len(line))]

\* key.startswith(prefix), key[len(prefix):]
StartsWith(x, prefix) ==
    Len(x) >= Len(prefix) /\ SubSeq(x, 1, Len(prefix)) = prefix
DropPrefix(x, prefix) == SubSeq(x, Len(prefix) + 1, Len(x))

\* variant of StripPrefix that goes on while a prefix is there
RECURSIVE StripPrefixAll(_)
StripPrefixAll(key) ==
    IF StartsWith(key, TableDot) THEN StripPrefixAll(DropPrefix(key, TableDot))
    ELSE IF StartsWith(key, StatusDot) THEN StripPrefixAll(DropPrefix(key, StatusDot))
    ELSE key

\* the loop over ("table.", "status.") with its break
StripPrefix(key) ==
    IF StartsWith(key, TableDot) THEN DropPrefix(key, TableDot)
    ELSE IF StartsWith(key, StatusDot) THEN DropPrefix(key, StatusDot)
    ELSE key

\* variant of SetItem that keeps the value a key already has
SetItemFirstWins(result, key, value) ==
    IF \E i \in 1..Len(result) : result[i].key = key
    THEN result
    ELSE Append(result, [key |-> key, value |-> value])

\* result[key] = value on a dict: a new key goes last, a key that is there
\* keeps its place and gets the value
SetItem(result, key, value) ==
    IF \E i \in 1..Len(result) : result[i].key = key
    THEN [i \in 1..Len(result) |->
            IF result[i].key = key THEN [key |-> key, value |-> value]
            ELSE result[i]]
    ELSE Append(result, [key |-> key, value |-> value])

\* variant of BareLine that stores a line without "=" with no value
BareLineNoValue(line) == [key |-> line, value |-> <<>>]

\* result[line] = line
BareLine(line) == [key |-> line, value |-> line]

\* the body of the loop of parse_dahua_response for one line
ParseLine(result, rawline) ==
    LET line == StripStr(rawline)
    IN  IF line = <<>> THEN result
        ELSE IF HasEq(line)
        THEN SetItem(result, StripPrefix(SplitFirst(line).key), SplitFirst(line).value)
        ELSE SetItem(result, BareLine(line).key, BareLine(line).value)

RECURSIVE ParseLines(_, _)
ParseLines(result, ls) ==
    IF ls = <<>> THEN result
    ELSE ParseLines(ParseLine(result, Head(ls)), Tail(ls))

\* parse_dahua_response(text): a dict as the sequence of its items
parse_dahua_response(text) == ParseLines(<<>>, Splitlines(StripStr(text)))

\* str.casefold() on the letters of the texts here
CasefoldChar(ch) ==
    CASE ch = "T" -> "t" [] ch = "R" -> "r" [] ch = "U" -> "u" [] ch = "E" -> "e"
      [] ch = "Y" -> "y" [] ch = "S" -> "s" [] ch = "O" -> "o" [] ch = "N" -> "n"
      [] ch = "F" -> "f" [] ch = "A" -> "a" [] ch = "L" -> "l"
      [] OTHER -> ch
Casefold(x) == [i \in 1..Len(x) |-> CasefoldChar(x[i])]

TRUTHY_VALUES ==
    {<<"1">>, <<"t", "r", "u", "e">>, <<"y", "e", "s">>, <<"o", "n">>}

\* variant of Normalize that keeps the letter case
NormalizeCased(x) == StripStr(x)

\* str(val).strip().casefold()
Normalize(x) == Casefold(StripStr(x))

\* parse_bool(val, default): val is <<>> for None, <<x>> for the string x
parse_bool(val, default) ==
    IF val = <<>> THEN default
    ELSE Normalize(val[1]) \in TRUTHY_VALUES

\* the lines of the texts: white space or none around a body that is blank
\* or up to MaxPrefixes prefixes, the key "k" and nothing, "=v", "=v=w" or
\* " = v"
RECURSIVE PrefixesOfLen(_)
PrefixesOfLen(n) ==
    IF n = 0 THEN {<<>>}
    ELSE {p \o q : p \in {TableDot, StatusDot}, q \in PrefixesOfLen(n - 1)}
LineBodies ==
    {<<>>} \cup
    {p \o <<"k">> \o r :
        p \in UNION {PrefixesOfLen(n) : n \in 0..MaxPrefixes},
        r \in {<<>>, <<"=", "v">>, <<"=", "v", "=", "w">>, <<" ", "=", " ", "v">>}}
TextLines == [pad : {<<>>, <<" ">>}, body : LineBodies]
RECURSIVE TextLinesOfLen(_)
TextLinesOfLen(n) ==
    IF n = 0 THEN {<<>>}
    ELSE {Append(ls, l) : ls \in TextLinesOfLen(n - 1), l \in TextLines}

\* the lines ls as one text, sep between them
RECURSIVE Join(_, _)
Join(ls, sep) ==
    IF ls = <<>> THEN <<>>
    ELSE Head(ls).pad \o Head(ls).body \o Head(ls).pad
            \o (IF Len(ls) = 1 THEN <<>> ELSE sep \o Join(Tail(ls), sep))

\* the values given to parse_bool
BoolWords ==
    {<<>>, <<"1">>, <<"0">>, <<"1", "1">>,
     <<"t", "r", "u", "e">>, <<"T", "r", "u", "e">>, <<"T", "R", "U", "E">>,
     <<"y", "e", "s">>, <<"Y", "e", "s">>, <<"o", "n">>, <<"O", "N">>,
     <<"f", "a", "l", "s", "e">>, <<"F", "a", "l", "s", "e">>,
     <<"n", "o">>, <<"o", "f", "f">>, <<"t", "r", "u">>, <<"o", " ", "n">>}
BoolPads == {<<>>, <<" ">>, <<"\t">>, <<"\n">>}

NoInput ==
    [fn |-> "none", lines |-> <<>>, text |-> <<>>, val |-> <<>>, default |-> FALSE]
NoOutput == [done |-> FALSE, mapping |-> <<>>, bool |-> FALSE]
CodecIdle == inp = NoInput /\ ret = NoOutput

\* ---- the tools behind a middleware: pure parts -----------------------------

\* the tools register_tools defines: name, tags, and the CGI action of the
\* request the handler issues first ("none" for list_cameras, which asks
\* no camera)
Tool(name, tags, action) == [name |-> name, tags |-> tags, action |-> action]
ToolDefs ==
    {Tool("list_cameras", {"dahua", "discovery", "read-only"}, "none"),
     Tool("get_system_info", {"dahua", "system", "read-only"}, "getSystemInfo"),
     Tool("get_device_type", {"dahua", "system", "read-only"}, "getDeviceType"),
     Tool("get_software_version", {"dahua", "system", "read-only"}, "getSoftwareVersion"),
     Tool("get_machine_name", {"dahua", "system", "read-only"}, "getMachineName"),
     Tool("get_serial_number", {"dahua", "system", "read-only"}, "getSerialNo"),
     Tool("get_hardware_version", {"dahua", "system", "read-only"}, "getHardwareVersion"),
     Tool("get_vendor", {"dahua", "system", "read-only"}, "getVendor"),
     Tool("get_config", {"dahua", "config", "read-only"}, "getConfig"),
     Tool("get_motion_detection", {"dahua", "config", "read-only"}, "getConfig"),
     Tool("get_video_in_mode", {"dahua", "config", "read-only"}, "getConfig"),
     Tool("get_encoding_config", {"dahua", "config", "read-only"}, "getConfig"),
     Tool("get_network_config", {"dahua", "config", "read-only"}, "getConfig"),
     Tool("get_ntp_config", {"dahua", "config", "read-only"}, "getConfig"),
     Tool("set_config", {"dahua", "config", "write", "destructive"}, "setConfig"),
     Tool("enable_motion_detection", {"dahua", "config", "write"}, "setConfig"),
     Tool("set_record_mode", {"dahua", "config", "write"}, "setConfig"),
     Tool("reboot", {"dahua", "system", "write", "destructive"}, "reboot"),
     Tool("take_snapshot", {"dahua", "snapshot", "read-only"}, "snapshot"),
     Tool("search_logs", {"dahua", "logs", "read-only"}, "startFind")}

\* variant of KeepsInList that filters nothing
KeepsInListAll(mw, dt, tags) == TRUE

\* on_list_tools: the test that keeps a tool in the list
KeepsInList(mw, dt, tags) ==
    IF mw = "read-only" THEN "read-only" \in tags ELSE ~HasDisabledTag(dt, tags)

\* variant of RejectsCall in which the read-only middleware turns away
\* only what is tagged destructive
RejectsCallIfDestructive(mw, dt, tags) ==
    IF mw = "read-only" THEN "destructive" \in tags ELSE HasDisabledTag(dt, tags)

\* on_call_tool: the test that turns a call away
RejectsCall(mw, dt, tags) == Rejects(mw, dt, tags)

NoToolCall ==
    [mw |-> "none", ctx |-> FALSE, tool |-> "none", tags |-> {},
     passed |-> FALSE, request |-> "none"]
NoListing == [mw |-> "none", ctx |-> FALSE, names |-> {}]
GateIdle == called = NoToolCall /\ listed = NoListing

\* ---- startup: pure parts --------------------------------------------------

\* one entry of the "cameras" list of the file: a mapping or not, and its
\* fields, each <<>> when the entry lacks it; a port may be no integer
PortFields ==
    {[given |-> FALSE, ok |-> TRUE, val |-> 0],
     [given |-> TRUE, ok |-> TRUE, val |-> 443],
     [given |-> TRUE, ok |-> FALSE, val |-> 0]}
RawEntries ==
    [mapping : {TRUE}, name : {<<>>, <<<<99>>>>, <<<<99, 97>>>>},
     host : {<<>>, <<"10.0.0.1">>}, username : {<<>>, <<"admin">>},
     password : {<<"p2">>}, port : PortFields]
    \cup [mapping : {FALSE}, name : {<<>>}, host : {<<>>}, username : {<<>>},
          password : {<<>>}, port : {[given |-> FALSE, ok |-> TRUE, val |-> 0]}]

\* what _load_cameras_file may give: no file, None (an empty YAML file), or
\* a mapping with or without the key "cameras"
RECURSIVE EntriesOfLen(_)
EntriesOfLen(n) ==
    IF n = 0 THEN {<<>>}
    ELSE {Append(es, e) : es \in EntriesOfLen(n - 1), e \in RawEntries}
RawFiles ==
    {[kind |-> "nofile", hasCameras |-> FALSE, cameras |-> <<>>],
     [kind |-> "None", hasCameras |-> FALSE, cameras |-> <<>>],
     [kind |-> "mapping", hasCameras |-> FALSE, cameras |-> <<>>]}
    \cup {[kind |-> "mapping", hasCameras |-> TRUE, cameras |-> es] :
            es \in UNION {EntriesOfLen(n) : n \in 0..MaxEntries}}
NoFileRead == [kind |-> "unread", hasCameras |-> FALSE, cameras |-> <<>>]

\* CameraConfig(**cam): what it raises, "ok" when it raises nothing
Validate(e) ==
    IF ~e.mapping THEN "TypeError"
    ELSE IF e.name = <<>> \/ e.host = <<>> \/ e.username = <<>>
              \/ e.password = <<>> \/ ~e.port.ok
    THEN "ValidationError"
    ELSE "ok"

\* CameraConfig(**cam) for an entry it accepts: port 80, verify_ssl False
\* and type "camera" unless given
ToCameraConfig(e) ==
    [name |-> e.name[1], host |-> e.host[1],
     port |-> IF e.port.given THEN e.port.val ELSE 80,
     username |-> e.username[1], password |-> e.password[1],
     verify_ssl |-> FALSE, type |-> "camera"]

\* [CameraConfig(**cam) for cam in ...]: the error of the first entry that
\* raises, "ok" when none does
RECURSIVE FirstError(_)
FirstError(es) ==
    IF es = <<>> THEN "ok"
    ELSE IF Validate(Head(es)) # "ok" THEN Validate(Head(es))
    ELSE FirstError(Tail(es))

\* variant of NoCameras that lets an empty list through
NoCamerasNever(cs) == FALSE

\* get_dahua_config_from_env: `if not cameras`
NoCameras(cs) == cs = <<>>

\* get_dahua_config_from_env: the error it raises ("ok" for none) and the
\* cameras of the DahuaConfig it returns
LoadConfig(f) ==
    LET es == IF f.hasCameras THEN f.cameras ELSE <<>>
        cs == [i \in 1..Len(es) |-> ToCameraConfig(es[i])]
    IN  IF f.kind = "nofile" THEN [error |-> "FileNotFoundError", cameras |-> <<>>]
        ELSE IF f.kind = "None" THEN [error |-> "AttributeError", cameras |-> <<>>]
        ELSE IF FirstError(es) # "ok" THEN [error |-> FirstError(es), cameras |-> <<>>]
        ELSE IF NoCameras(cs) THEN [error |-> "ValueError", cameras |-> <<>>]
        ELSE [error |-> "ok", cameras |-> cs]

\* startup is over and gave the registry
BootDone == raw = NoFileRead /\ boot = [status |-> "ready", error |-> "ok"]

Init ==
    TransportInit /\ RegInit(DefaultCameras(NumCams)) /\ ToolInit /\ MwInit({})
        /\ BootDone /\ CodecIdle /\ GateIdle

\* ---- fetch operations ---------------------------------------------------

\* get_parsed / get_raw / get_bytes up to the suspension in client.get:
\* _ensure_client, then the request is handed to the connection
\* had is whether the transport has met a Digest 401 by now
\* variant of ClientsAfterEnsure in which the handle is one attribute
\* shared by all transports
ClientsAfterEnsureShared(cli, c, h) == [d \in Cams |-> h]

\* _ensure_client: `self.client = ...` sets the handle of this transport
ClientsAfterEnsure(cli, c, h) == [cli EXCEPT ![c] = h]

Send(t, c, op, s, had) ==
    /\ LET h == EnsureClient(client[c], Len(conns[c]))
           created == h > Len(conns[c])
           cs == IF created THEN Append(conns[c], NewClient) ELSE conns[c]
           base == [IdleReq EXCEPT !.cam = c, !.op = op, !.conn = h,
                                   !.epoch = epoch[c], !.after401 = had]
       IN  /\ client' = ClientsAfterEnsure(client, c, h)
           /\ conns' = [conns EXCEPT ![c] = cs]
           /\ born' = [born EXCEPT ![c] =
                          IF created THEN Append(@, epoch[c]) ELSE @]
           /\ req' = [req EXCEPT ![t] =
                  IF h = None
                  THEN [base EXCEPT !.pc = "done", !.res = "AttributeError"]
                  ELSE IF cs[h].closed
                  THEN [base EXCEPT !.pc = "done", !.res = "RuntimeError"]
                  ELSE [base EXCEPT !.pc = "wait", !.sent = 1, !.silent = s]]
    /\ started' = [started EXCEPT ![c] = @ + 1]

\* a caller starts one fetch operation
Start(t, c, op, s) ==
    /\ req[t].pc \in {"idle", "done"}
    /\ NumStarted < MaxReqs
    /\ Send(t, c, op, s, had401[c])
    /\ UNCHANGED <<epoch, had401, cl, ncl>>

\* the continuation after `await self.client.get(...)`: raise_for_status and
\* the decoding of the body
\* the connection the request of caller t went out on
ConnOf(t) == conns[req[t].cam][req[t].conn]

\* the response r can reach caller t: a silent peer ends by the timeout
CanRespond(t, r) ==
    /\ req[t].pc = "wait"
    /\ req[t].silent => (HasTimeout(ConnOf(t)) /\ r = NoResponse)

\* the operation of caller t once r is in
Received(t, r) ==
    [req[t] EXCEPT !.pc = "done", !.resp = r,
                   !.sent = Attempts(@, r),
                   !.res = Outcome(req[t].op, r),
                   !.got401d = (r = 401 /\ ConnOf(t).auth = "Digest")]

Had401After(t, r) ==
    [had401 EXCEPT ![req[t].cam] = @ \/ (r = 401 /\ ConnOf(t).auth = "Digest")]

\* variant of ClientAfter that gives the handle up on any response but 401
ClientAfterDropped(h, r) == IF r = 401 THEN h ELSE None

\* self._client of a transport once the response r is in: get_parsed,
\* get_raw and get_bytes assign nothing to it
ClientAfter(h, r) == h

Respond(t, r) ==
    /\ CanRespond(t, r)
    /\ req' = [req EXCEPT ![t] = Received(t, r)]
    /\ had401' = Had401After(t, r)
    /\ client' = [client EXCEPT ![req[t].cam] = ClientAfter(@, r)]
    /\ UNCHANGED <<conns, born, epoch, started, cl, ncl>>

\* ---- close and close_all ------------------------------------------------

\* close_all from camera i on, run up to its next suspension: a camera whose
\* client is None is skipped (close is a no-op), a client that is already
\* closed is dropped without suspending (aclose returns at once), and the run
\* stops at the first camera whose open client it has to aclose.  cli and ep
\* are client and epoch as the step has changed them so far.
RunClose(k, i, cli, ep) ==
    LET blocks(c) == NeedsClose(cli[c])
                        /\ (cli[c] = None \/ ~conns[c][cli[c]].closed)
        stops == {c \in i..NumCams : blocks(c)}
        h == IF stops = {} THEN NumCams + 1
             ELSE CHOOSE c \in stops : \A d \in stops : c <= d
        passed(c) == c >= i /\ c < h /\ NeedsClose(cli[c])
    IN  /\ client' = [c \in Cams |-> IF passed(c) THEN None ELSE cli[c]]
        /\ epoch' = [c \in Cams |-> IF passed(c) THEN ep[c] + 1 ELSE ep[c]]
        /\ IF h > NumCams
           THEN /\ conns' = conns
                /\ cl' = [cl EXCEPT ![k] = [pc |-> "done", pos |-> h, conn |-> None]]
           ELSE IF cli[h] = None
           THEN /\ conns' = conns
                /\ cl' = [cl EXCEPT ![k] = [pc |-> "failed", pos |-> h, conn |-> None]]
           ELSE /\ conns' = [conns EXCEPT ![h] = Released(@, cli[h])]
                /\ cl' = [cl EXCEPT ![k] = [pc |-> "await", pos |-> h, conn |-> cli[h]]]

\* DahuaCameraManager.close_all is called
CloseAllStart(k) ==
    /\ cl[k].pc \in {"idle", "done", "failed"}
    /\ ncl < MaxCloseAlls
    /\ ncl' = ncl + 1
    /\ RunClose(k, 1, client, epoch)
    /\ UNCHANGED <<born, had401, req, started>>

\* `await self.client.aclose()` returns: close assigns client = None and
\* close_all goes on with the next camera
CloseAllResume(k) ==
    /\ cl[k].pc = "await"
    /\ LET c == cl[k].pos
       IN  RunClose(k, c + 1, [client EXCEPT ![c] = None],
                    [epoch EXCEPT ![c] = @ + 1])
    /\ UNCHANGED <<born, had401, req, started, ncl>>

\* `await self.client.aclose()` raises: the exception leaves close and
\* close_all; client keeps the closed handle
CloseAllFail(k) ==
    /\ cl[k].pc = "await"
    /\ cl' = [cl EXCEPT ![k] = [@ EXCEPT !.pc = "failed"]]
    /\ UNCHANGED <<client, conns, born, epoch, had401, req, started, ncl>>

\* fetch operations and close_all calls, the registry left alone
Next ==
    \/ \E t \in Tasks, c \in Cams, op \in Ops, s \in BOOLEAN :
            Start(t, c, op, s) /\ UNCHANGED <<regvars, toolvars, mwvars, bootvars, codecvars, gatevars>>
    \/ \E t \in Tasks, r \in Statuses \cup {NoResponse} :
            Respond(t, r) /\ UNCHANGED <<regvars, toolvars, mwvars, bootvars, codecvars, gatevars>>
    \/ \E k \in Closers : CloseAllStart(k) /\ UNCHANGED <<regvars, toolvars, mwvars, bootvars, codecvars, gatevars>>
    \/ \E k \in Closers : CloseAllResume(k) /\ UNCHANGED <<regvars, toolvars, mwvars, bootvars, codecvars, gatevars>>
    \/ \E k \in Closers : CloseAllFail(k) /\ UNCHANGED <<regvars, toolvars, mwvars, bootvars, codecvars, gatevars>>

Spec == Init /\ [][Next]_vars

\* the event loop resumes a caller whose response (or timeout) has arrived
FairSpec ==
    Spec /\ \A t \in Tasks :
                WF_vars(\E r \in Statuses \cup {NoResponse} :
                            Respond(t, r) /\ UNCHANGED <<regvars, toolvars, mwvars, bootvars, codecvars, gatevars>>)

\* ---- the registry on its own ----------------------------------------------

\* every config.cameras of n entries; the credentials, which no call of
\* the registry reads, are varied by Variants below
RECURSIVE ConfigsOfLen(_)
ConfigsOfLen(n) ==
    IF n = 0 THEN {<<>>}
    ELSE {Append(cs, CameraConfig(nm, h, p, cr)) :
            cs \in ConfigsOfLen(n - 1), nm \in Names, h \in Hosts, p \in Ports,
            cr \in {x \in Credentials : x.password = "p2"}}
RegConfigs == UNION {ConfigsOfLen(n) : n \in 1..NumCams}

\* the same cameras with other credentials, TLS setting and type
RECURSIVE Variants(_)
Variants(cs) ==
    IF cs = <<>> THEN {<<>>}
    ELSE LET last == cs[Len(cs)]
         IN  {Append(v, CameraConfig(last.name, last.host, last.port, cr)) :
                v \in Variants(SubSeq(cs, 1, Len(cs) - 1)), cr \in Credentials}

\* names a caller may ask for: the configured ones and one nobody has ("C")
AskedNames == Names \cup {<<67>>}

RegSpecInit ==
    /\ TransportInit /\ ToolInit /\ MwInit({}) /\ BootDone /\ CodecIdle /\ GateIdle
    /\ \E cs \in RegConfigs : RegInit(cs)

\* manager.get_camera(name)
GetCameraCall(name) ==
    /\ rout' = [NoCall EXCEPT !.op = "get_camera", !.name = name,
                              !.kind = GetCamera(cameras, name).kind,
                              !.available = GetCamera(cameras, name).available,
                              !.cam = GetCamera(cameras, name).cam]
    /\ UNCHANGED <<cfg, cameras>>
    /\ UNCHANGED <<tvars, toolvars, mwvars, bootvars, codecvars, gatevars>>

\* manager.list_cameras()
ListCamerasCall ==
    /\ rout' = [NoCall EXCEPT !.op = "list_cameras", !.kind = "ok",
                              !.list = ListCameras(cameras)]
    /\ UNCHANGED <<cfg, cameras>>
    /\ UNCHANGED <<tvars, toolvars, mwvars, bootvars, codecvars, gatevars>>

RegNext ==
    \/ \E name \in AskedNames : GetCameraCall(name)
    \/ ListCamerasCall

RegSpec == RegSpecInit /\ [][RegNext]_vars

\* ---- the tools -----------------------------------------------------------

\* _error_str(e) for an exception of that type; the not-found ValueError
\* carries the asked name and the sorted names of its message
ErrorOf(type) == [type |-> type, text |-> "", name |-> <<>>, available |-> <<>>]
NotFoundError(g) ==
    [type |-> "ValueError", text |-> "Camera not found. Available cameras:",
     name |-> g.name, available |-> g.available]
\* the error of search_logs for a startFind response without a token
NoTokenError ==
    [type |-> "", text |-> "Failed to start log search - no token returned",
     name |-> <<>>, available |-> <<>>]

\* one line of a startFind response: left, then "=" and right when eq
StartLines ==
    {[left |-> "token", eq |-> TRUE, right |-> "42"],
     [left |-> "Token", eq |-> TRUE, right |-> " 42 "],
     [left |-> "token", eq |-> TRUE, right |-> ""],
     [left |-> "Error", eq |-> FALSE, right |-> ""],
     [left |-> "count", eq |-> TRUE, right |-> "3"],
     [left |-> "msg", eq |-> TRUE, right |-> "no token"]}
RECURSIVE LinesOfLen(_)
LinesOfLen(n) ==
    IF n = 0 THEN {<<>>}
    ELSE {Append(b, l) : b \in LinesOfLen(n - 1), l \in StartLines}
StartBodies == UNION {LinesOfLen(n) : n \in 0..MaxLines}
\* bodies of the other responses
TextBodies ==
    {<<[left |-> "found", eq |-> TRUE, right |-> "0"]>>,
     <<[left |-> "found", eq |-> TRUE, right |-> "2"]>>}

\* the bodies the response r to the request of step pc may have; a failed
\* request has none
BodiesAt(pc, r) ==
    IF r = NoResponse \/ ~IsSuccess(r) THEN {<<>>}
    ELSE IF pc = "startFind" THEN StartBodies
    ELSE TextBodies

\* "token" in x.lower(), x.strip(), on the strings above
ContainsToken(x) == x \in {"token", "Token", "no token"}
Strip(x) == IF x = " 42 " THEN "42" ELSE x

\* search_logs: the token of the first line with "token" and "=" in it,
\* <<>> for None
RECURSIVE ExtractToken(_)
ExtractToken(body) ==
    IF body = <<>> THEN <<>>
    ELSE LET line == Head(body)
         IN  IF (ContainsToken(line.left) \/ (line.eq /\ ContainsToken(line.right)))
                   /\ line.eq
             THEN <<Strip(line.right)>>
             ELSE ExtractToken(Tail(body))

\* search_logs: `if not token`
NoToken(tk) == tk = <<>> \/ tk = <<"">>

\* parse_dahua_response of a body, kept apart from the body itself
Parsed(body) == [mapping_of |-> body]

\* variant of Suppressed that lets I/O failures through
SuppressedStatusOnly(exc) == exc = "HTTPStatusError"

\* search_logs: contextlib.suppress(Exception) around stopFind
Suppressed(exc) == exc \in {"HTTPStatusError", "TransportError", "RuntimeError", "AttributeError"}

ToolNames == {"get_system_info", "search_logs"}
\* the first request of a tool: the operation and the endpoint
FirstOp(tl) == IF tl = "search_logs" THEN "get_raw" ELSE "get_parsed"
FirstStep(tl) == IF tl = "search_logs" THEN "startFind" ELSE "getSystemInfo"

\* names a tool is called with: the registered ones and "C1"
ToolAskedNames == KeySet(cameras) \cup {<<67, 49>>}

\* the tool call after a request to endpoint ep went out for it (or could
\* not go out, which ends the call)
AfterSend(t, call, ep) ==
    IF req'[t].pc = "done"
    THEN [call EXCEPT !.pc = "done", !.error = <<ErrorOf(req'[t].res)>>]
    ELSE [call EXCEPT !.pc = ep, !.issued = Append(@, [ep |-> ep, token |-> call.token])]

\* get_system_info(camera) / search_logs(camera, ...) up to the first await
\* of a response
ToolBegin(t, tl, name, s) ==
    /\ tool[t].pc \in {"idle", "done"}
    /\ ncalls < MaxCalls
    /\ ncalls' = ncalls + 1
    /\ LET g == GetCamera(cameras, name)
           call == [IdleTool EXCEPT !.tool = tl, !.name = name,
                       !.afterNotFound = (tool[t].error # <<>>
                            /\ tool[t].error[1].type = "ValueError")]
       IN  IF g.kind = "ValueError"
           THEN /\ tool' = [tool EXCEPT ![t] =
                        [call EXCEPT !.pc = "done", !.error = <<NotFoundError(g)>>]]
                /\ UNCHANGED tvars
           ELSE /\ Send(t, g.idx, FirstOp(tl), s, had401[g.idx])
                /\ tool' = [tool EXCEPT ![t] = AfterSend(t, call, FirstStep(tl))]
                /\ UNCHANGED <<epoch, had401, cl, ncl>>
    /\ UNCHANGED <<regvars, mwvars, bootvars, codecvars, gatevars>>

\* the tool call goes on once the response r with that body is in, up to
\* its next await or its return
ToolResume(t, r, body, s) ==
    /\ tool[t].pc \in {"getSystemInfo", "startFind", "doFind", "stopFind"}
    /\ CanRespond(t, r)
    /\ body \in BodiesAt(tool[t].pc, r)
    /\ LET cur == tool[t]
           out == Received(t, r).res
           c == req[t].cam
           failed == [cur EXCEPT !.pc = "done", !.error = <<ErrorOf(out)>>]
           Finish(call) ==
               /\ tool' = [tool EXCEPT ![t] = call]
               /\ req' = [req EXCEPT ![t] = Received(t, r)]
               /\ UNCHANGED <<client, conns, born, started>>
           Continue(op, ep, call) ==
               /\ Send(t, c, op, s, Had401After(t, r)[c])
               /\ tool' = [tool EXCEPT ![t] = AfterSend(t, call, ep)]
       IN  CASE cur.pc = "getSystemInfo" ->
                  Finish(IF out = "mapping"
                         THEN [cur EXCEPT !.pc = "done", !.value = <<Parsed(body)>>]
                         ELSE failed)
             [] cur.pc = "startFind" ->
                  IF out # "text" THEN Finish(failed)
                  ELSE LET tk == ExtractToken(body)
                           got == [cur EXCEPT !.gotStart = TRUE, !.raw = body,
                                              !.token = tk]
                       IN  IF NoToken(tk)
                           THEN Finish([got EXCEPT !.pc = "done",
                                                   !.error = <<NoTokenError>>,
                                                   !.attached = <<body>>])
                           ELSE Continue("get_parsed", "doFind", got)
             [] cur.pc = "doFind" ->
                  IF out # "mapping" THEN Finish(failed)
                  ELSE Continue("get_raw", "stopFind",
                                [cur EXCEPT !.gotFind = TRUE, !.find = <<Parsed(body)>>])
             [] cur.pc = "stopFind" ->
                  Finish(IF out = "text" \/ Suppressed(out)
                         THEN [cur EXCEPT !.pc = "done", !.stop = out, !.value = cur.find]
                         ELSE [failed EXCEPT !.stop = out])
    /\ had401' = Had401After(t, r)
    /\ UNCHANGED <<epoch, cl, ncl, ncalls>>
    /\ UNCHANGED <<regvars, mwvars, bootvars, codecvars, gatevars>>

ToolNext ==
    \/ \E t \in Tasks, tl \in ToolNames, name \in ToolAskedNames, s \in BOOLEAN :
            ToolBegin(t, tl, name, s)
    \/ \E t \in Tasks, r \in Statuses \cup {NoResponse} :
          \E body \in BodiesAt(tool[t].pc, r), s \in BOOLEAN :
            ToolResume(t, r, body, s)

ToolSpec == Init /\ [][ToolNext]_vars

\* ---- the middlewares ------------------------------------------------------

\* on_call_tool / on_read_resource / on_get_prompt of the middleware mw for
\* a request that asks for component comp; ctx is whether the request has
\* a fastmcp_context, res what call_next gives if it is called
OnCall(mw, comp, ctx, res) ==
    /\ nmw < MaxMwCalls
    /\ nmw' = nmw + 1
    /\ LET request == [NoRequest EXCEPT !.mw = mw, !.kind = comp.kind,
                                         !.tags = comp.tags, !.ctx = ctx]
       IN  IF ctx /\ Rejects(mw, dtags, comp.tags)
           THEN /\ disabled' = disabled \cup {comp}
                /\ mwout' = [request EXCEPT
                        !.outcome = ErrorOfKind(comp.kind),
                        !.message = IF mw = "read-only"
                                    THEN "disabled in read-only mode"
                                    ELSE "disabled due to disabled tags",
                        !.found = IF mw = "read-only" THEN {}
                                  ELSE dtags \cap comp.tags]
           ELSE /\ disabled' = disabled
                /\ mwout' = [request EXCEPT
                        !.outcome = "passed", !.nexts = 1, !.passed = {comp},
                        !.next = res, !.returned = res]
    /\ UNCHANGED dtags
    /\ UNCHANGED <<tvars, regvars, toolvars, bootvars, codecvars, gatevars>>

MwNext ==
    \E mw \in Middlewares, comp \in Components, ctx \in BOOLEAN,
       res \in {"result", "error"} : OnCall(mw, comp, ctx, res)

MwSpecInit ==
    /\ TransportInit /\ RegInit(DefaultCameras(NumCams)) /\ ToolInit /\ BootDone
    /\ CodecIdle /\ GateIdle
    /\ \E dt \in SUBSET TagUniverse : MwInit(dt)

MwSpec == MwSpecInit /\ [][MwNext]_vars

\* ---- startup -------------------------------------------------------------

\* before startup: the file is there to be read, nothing is built
ConfSpecInit ==
    /\ TransportInit /\ ToolInit /\ MwInit({}) /\ CodecIdle /\ GateIdle
    /\ cfg = <<>> /\ cameras = <<>> /\ rout = NoCall
    /\ raw \in RawFiles
    /\ boot = [status |-> "none", error |-> "ok"]

\* get_dahua_config_from_env, then register_tools, which builds the
\* manager from the config: an exception of the first ends startup
Startup ==
    /\ boot.status = "none"
    /\ LET got == LoadConfig(raw)
       IN  IF got.error # "ok"
           THEN /\ boot' = [status |-> "failed", error |-> got.error]
                /\ UNCHANGED <<cfg, cameras>>
           ELSE /\ boot' = [status |-> "ready", error |-> "ok"]
                /\ cfg' = got.cameras
                /\ cameras' = Build(got.cameras, Timeout)
    /\ UNCHANGED <<raw, rout>>
    /\ UNCHANGED <<tvars, toolvars, mwvars, codecvars, gatevars>>

\* once the registry stands: manager.list_cameras()
ListAfterStartup ==
    /\ boot.status = "ready"
    /\ rout' = [NoCall EXCEPT !.op = "list_cameras", !.kind = "ok",
                              !.list = ListCameras(cameras)]
    /\ UNCHANGED <<cfg, cameras>>
    /\ UNCHANGED <<tvars, toolvars, mwvars, bootvars, codecvars, gatevars>>

ConfNext == Startup \/ ListAfterStartup

ConfSpec == ConfSpecInit /\ [][ConfNext]_vars

\* ---- the manager in use ---------------------------------------------------

\* variant of CamerasAfterCloseAll in which close_all empties the registry
CamerasCleared(reg) == <<>>

\* self._cameras once close_all has gone over its values: the loop closes
\* the transports and takes none out
CamerasAfterCloseAll(reg) == reg

\* close_all as a step of the manager: the transports are closed, the
\* registry is what close_all leaves of it
MgrCloseAll(k) ==
    /\ CloseAllStart(k) \/ CloseAllResume(k) \/ CloseAllFail(k)
    /\ cameras' = CamerasAfterCloseAll(cameras)
    /\ UNCHANGED <<cfg, rout>>
    /\ UNCHANGED <<toolvars, mwvars, bootvars, codecvars, gatevars>>

\* fetch operations, get_camera and list_cameras on one manager, and
\* close_all as its one owner calls it (at shutdown, and maybe once more)
MgrNext ==
    \/ \E t \in Tasks, c \in Cams, op \in Ops, s \in BOOLEAN :
            Start(t, c, op, s) /\ UNCHANGED <<regvars, toolvars, mwvars, bootvars, codecvars, gatevars>>
    \/ \E t \in Tasks, r \in Statuses \cup {NoResponse} :
            Respond(t, r) /\ UNCHANGED <<regvars, toolvars, mwvars, bootvars, codecvars, gatevars>>
    \/ MgrCloseAll(1)
    \/ \E name \in ToolAskedNames : GetCameraCall(name)
    \/ ListCamerasCall

MgrSpec == Init /\ [][MgrNext]_vars

\* ---- two transports side by side ------------------------------------------

\* DahuaCamera.close of transport c, run to its end
CloseOne(c) ==
    /\ IF NeedsClose(client[c])
       THEN /\ conns' = [conns EXCEPT ![c] = Released(@, client[c])]
            /\ client' = [client EXCEPT ![c] = None]
            /\ epoch' = [epoch EXCEPT ![c] = @ + 1]
       ELSE UNCHANGED <<conns, client, epoch>>
    /\ UNCHANGED <<born, had401, req, started, cl, ncl>>

\* caller 1 works on transport 1, caller 2 on transport 2; whatever is done
\* to the first (a fetch operation started, a response, a close) is then
\* done to the second, with an operation of its own choice, the same peer
\* behaviour and the same response
Level == started[1] = started[2] /\ epoch[1] = epoch[2]
Answered(t) == req[t].pc = "done" /\ req[t].sent >= 1

TwinStartA(op, s) ==
    /\ Level /\ req[1].pc \in {"idle", "done"} /\ req[2].pc \in {"idle", "done"}
    /\ started[1] < MaxTwinReqs
    /\ Send(1, 1, op, s, had401[1])
    /\ UNCHANGED <<epoch, had401, cl, ncl>>
    /\ UNCHANGED <<regvars, toolvars, mwvars, bootvars, codecvars, gatevars>>

TwinStartB(op) ==
    /\ started[2] < started[1]
    /\ Send(2, 2, op, req[1].silent, had401[2])
    /\ UNCHANGED <<epoch, had401, cl, ncl>>
    /\ UNCHANGED <<regvars, toolvars, mwvars, bootvars, codecvars, gatevars>>

TwinRespondA(r) ==
    /\ Level /\ req[2].pc = "wait"
    /\ Respond(1, r)
    /\ UNCHANGED <<regvars, toolvars, mwvars, bootvars, codecvars, gatevars>>

TwinRespondB ==
    /\ Level /\ Answered(1)
    /\ Respond(2, req[1].resp)
    /\ UNCHANGED <<regvars, toolvars, mwvars, bootvars, codecvars, gatevars>>

TwinCloseA ==
    /\ Level /\ req[1].pc = req[2].pc
    /\ epoch[1] < MaxTwinCloses /\ NeedsClose(client[1])
    /\ CloseOne(1)
    /\ UNCHANGED <<regvars, toolvars, mwvars, bootvars, codecvars, gatevars>>

TwinCloseB ==
    /\ epoch[2] < epoch[1]
    /\ CloseOne(2)
    /\ UNCHANGED <<regvars, toolvars, mwvars, bootvars, codecvars, gatevars>>

TwinNext ==
    \/ \E op \in Ops, s \in BOOLEAN : TwinStartA(op, s)
    \/ \E op \in Ops : TwinStartB(op)
    \/ \E r \in Statuses \cup {NoResponse} : TwinRespondA(r)
    \/ TwinRespondB
    \/ TwinCloseA
    \/ TwinCloseB

TwinSpec == Init /\ [][TwinNext]_vars

\* ---- the tools behind a middleware ------------------------------------------

\* a server whose tools were registered, with one middleware in front and
\* some set of disabled tags
GateSpecInit ==
    /\ TransportInit /\ RegInit(DefaultCameras(NumCams)) /\ ToolInit /\ BootDone
    /\ CodecIdle /\ GateIdle
    /\ \E dt \in SUBSET TagUniverse : MwInit(dt)

\* tools/call of the tool tl through on_call_tool of the middleware mw;
\* ctx is whether the request has a fastmcp_context. call_next runs the
\* handler, which issues its request to the camera
CallTool(mw, tl, ctx) ==
    /\ nmw < MaxGateCalls
    /\ nmw' = nmw + 1
    /\ IF ctx /\ RejectsCall(mw, dtags, tl.tags)
       THEN /\ disabled' = disabled \cup {[kind |-> "tool", tags |-> tl.tags]}
            /\ called' = [NoToolCall EXCEPT !.mw = mw, !.ctx = ctx,
                                            !.tool = tl.name, !.tags = tl.tags]
       ELSE /\ disabled' = disabled
            /\ called' = [NoToolCall EXCEPT !.mw = mw, !.ctx = ctx,
                                            !.tool = tl.name, !.tags = tl.tags,
                                            !.passed = TRUE, !.request = tl.action]
    /\ UNCHANGED <<dtags, mwout, listed>>
    /\ UNCHANGED <<tvars, regvars, toolvars, bootvars, codecvars>>

\* tools/list through on_list_tools of the middleware mw: call_next gives
\* all tools; with a fastmcp_context the tools that fail the test are
\* taken out and disabled
ListTools(mw, ctx) ==
    /\ nmw < MaxGateCalls
    /\ nmw' = nmw + 1
    /\ LET kept == IF ctx
                   THEN {tl \in ToolDefs : KeepsInList(mw, dtags, tl.tags)}
                   ELSE ToolDefs
       IN  /\ listed' = [mw |-> mw, ctx |-> ctx, names |-> {tl.name : tl \in kept}]
           /\ disabled' = disabled \cup
                  {[kind |-> "tool", tags |-> tl.tags] : tl \in ToolDefs \ kept}
    /\ UNCHANGED <<dtags, mwout, called>>
    /\ UNCHANGED <<tvars, regvars, toolvars, bootvars, codecvars>>

GateNext ==
    \/ \E mw \in Middlewares, tl \in ToolDefs, ctx \in BOOLEAN : CallTool(mw, tl, ctx)
    \/ \E mw \in Middlewares, ctx \in BOOLEAN : ListTools(mw, ctx)

GateSpec == GateSpecInit /\ [][GateNext]_vars

\* ---- utils.py ---------------------------------------------------------------

\* a call of one of the two functions is about to be made
CodecSpecInit ==
    /\ TransportInit /\ RegInit(DefaultCameras(NumCams)) /\ ToolInit /\ MwInit({})
    /\ BootDone /\ GateIdle
    /\ ret = NoOutput
    /\ \/ \E n \in 0..MaxTextLines, sep \in {<<"\n">>, <<"\r", "\n">>} :
            \E ls \in TextLinesOfLen(n) :
                inp = [NoInput EXCEPT !.fn = "parse_dahua_response",
                                      !.lines = ls, !.text = Join(ls, sep)]
       \/ \E l, r \in BoolPads, w \in BoolWords, d \in BOOLEAN :
            inp = [NoInput EXCEPT !.fn = "parse_bool",
                                  !.val = <<l \o w \o r>>, !.default = d]
       \/ \E d \in BOOLEAN :
            inp = [NoInput EXCEPT !.fn = "parse_bool", !.default = d]

ParseResponse ==
    /\ inp.fn = "parse_dahua_response" /\ ~ret.done
    /\ ret' = [NoOutput EXCEPT !.done = TRUE,
                               !.mapping = parse_dahua_response(inp.text)]
    /\ UNCHANGED inp
    /\ UNCHANGED <<tvars, regvars, toolvars, mwvars, bootvars, gatevars>>

ParseBool ==
    /\ inp.fn = "parse_bool" /\ ~ret.done
    /\ ret' = [NoOutput EXCEPT !.done = TRUE,
                               !.bool = parse_bool(inp.val, inp.default)]
    /\ UNCHANGED inp
    /\ UNCHANGED <<tvars, regvars, toolvars, mwvars, bootvars, gatevars>>

CodecNext == ParseResponse \/ ParseBool

CodecSpec == CodecSpecInit /\ [][CodecNext]_vars

TypeOK ==
    /\ \A c \in Cams : client[c] \in 0..Len(conns[c])
    /\ \A c \in Cams : Len(conns[c]) <= started[c] /\ Len(born[c]) = Len(conns[c])
    /\ NumStarted \in 0..MaxReqs
    /\ ncl \in 0..MaxCloseAlls

\* ---- properties ---------------------------------------------------------

AuthOf(t) == conns[req[t].cam][req[t].conn].auth
BasicConns(c) == {i \in DOMAIN conns[c] : conns[c][i].auth = "Basic"}
Finished(t) == req[t].pc = "done"

\* C1: a fetch operation that got a 401 on a Digest connection has re-issued
\* its request exactly once, on a new connection with Basic credentials, and
\* succeeds when that retry succeeds.
C1_FallbackRetriesOnBasic ==
    \A t \in Tasks :
        (Finished(t) /\ req[t].got401d) =>
            /\ req[t].sent = 2
            /\ AuthOf(t) = "Basic"
            /\ IsSuccess(req[t].resp) => req[t].res = Decode(req[t].op)

\* C2: the scheme only goes from Digest to Basic and only after a 401 in
\* Digest mode, and every request sent after such a 401 (also after a close
\* and a reconnect) is sent with Basic credentials.
C2_BasicAfter401 ==
    /\ \A c \in Cams : BasicConns(c) # {} => had401[c]
    /\ \A t \in Tasks :
           (req[t].sent >= 1 /\ req[t].after401) => AuthOf(t) = "Basic"

\* C3: a request of a transport that is in Basic mode (its transport had a
\* 401 in Digest mode before the request was sent) and that receives a 401
\* fails at once with an error carrying 401: one HTTP request, sent on a
\* Basic connection that is still the one the request used.
C3_Basic401IsTerminal ==
    \A t \in Tasks :
        (Finished(t) /\ req[t].after401 /\ req[t].sent >= 1 /\ req[t].resp = 401) =>
            /\ req[t].sent = 1
            /\ req[t].res \notin {"mapping", "text", "bytes"}
            /\ AuthOf(t) = "Basic"

\* C4: a transport on which no request was started has no connection; once
\* a request was started the first connection exists and carries Digest
\* credentials.
C4_FreshThenDigest ==
    \A c \in Cams :
        /\ started[c] = 0 => (client[c] = None /\ conns[c] = <<>>)
        /\ started[c] > 0 => (Len(conns[c]) >= 1 /\ conns[c][1].auth = "Digest")

C4_Witness ==
    \E c \in Cams :
        /\ started[c] = 1 /\ client[c] = 1
        /\ Len(conns[c]) = 1 /\ conns[c][1].auth = "Digest"
        /\ \E t \in Tasks : req[t].pc = "wait" /\ req[t].cam = c /\ req[t].conn = 1

\* C5: between two closes a transport creates at most one connection, and
\* all requests issued to it in that period use that one connection.
C5_OneConnection ==
    /\ \A c \in Cams : \A i, j \in DOMAIN conns[c] :
           born[c][i] = born[c][j] => i = j
    /\ \A t, u \in Tasks :
           (req[t].pc # "idle" /\ req[u].pc # "idle" /\ req[t].cam = req[u].cam
                /\ req[t].epoch = req[u].epoch) => req[t].conn = req[u].conn

C5_Witness ==
    \E t, u \in Tasks :
        /\ t # u /\ req[t].pc = "wait" /\ req[u].pc = "wait"
        /\ req[t].cam = req[u].cam /\ req[t].conn = req[u].conn
        /\ started[req[t].cam] = 2 /\ Len(conns[req[t].cam]) = 1

\* C6: when two requests of one transport each got a 401 in Digest mode,
\* one Basic connection was created and both retried on it.
C6_SingleSwap ==
    \A t, u \in Tasks :
        (t # u /\ Finished(t) /\ Finished(u) /\ req[t].cam = req[u].cam
            /\ req[t].got401d /\ req[u].got401d) =>
            /\ Cardinality(BasicConns(req[t].cam)) = 1
            /\ req[t].conn \in BasicConns(req[t].cam)
            /\ req[u].conn = req[t].conn
            /\ req[t].sent = 2 /\ req[u].sent = 2

\* the cameras a step of close_all call k runs close on without suspending
ClosedFrom(k) == IF cl[k].pc = "await" THEN cl[k].pos + 1 ELSE 1

\* C7: when a close returns, the transport is Unconnected and the connection
\* the close released is closed; a close on an Unconnected transport changes
\* neither its handle nor its connections and does not raise.
C7_CloseIdempotent ==
    [][\A k \in Closers :
          /\ (cl[k].pc = "await" /\ cl'[k].pos > cl[k].pos) =>
                 /\ client'[cl[k].pos] = None
                 /\ conns'[cl[k].pos][cl[k].conn].closed
          /\ cl'[k] # cl[k] =>
                 \A c \in Cams :
                     (c >= ClosedFrom(k) /\ c <= cl'[k].pos /\ client[c] = None) =>
                         /\ client'[c] = None
                         /\ conns'[c] = conns[c]
                         /\ ~(cl'[k].pc = "failed" /\ cl'[k].pos = c)
      ]_vars

C7_Witness ==
    /\ cl[1].pc = "done" /\ cl[2].pc = "idle" /\ ncl = 2
    /\ \E c \in Cams :
           client[c] = None /\ Len(conns[c]) = 1 /\ conns[c][1].closed

\* C8: with close_all running at any time, no fetch operation ever uses a
\* missing handle, and every request in flight ends, with a result or an
\* error.
C8_InFlightTerminates ==
    /\ [](\A t \in Tasks : req[t].res # "AttributeError")
    /\ \A t \in Tasks : (req[t].pc = "wait") ~> (req[t].pc = "done")

C8_Witness ==
    \E t \in Tasks :
        /\ req[t].pc = "wait" /\ req[t].silent
        /\ conns[req[t].cam][req[t].conn].closed
        /\ client[req[t].cam] = None

\* C9: a finished close_all has run close on every registered transport,
\* also when a close failed, and ends with an outcome rather than with the
\* exception of the first failing close.
C9_CloseAllBestEffort ==
    \A k \in Closers :
        cl[k].pc \in {"done", "failed"} =>
            /\ {c \in Cams : c <= cl[k].pos} = Cams
            /\ cl[k].pc # "failed"

\* C10: a fetch operation ends with a result or with a structured error of
\* the transport; no exception of the HTTP library reaches its caller.
C10_NoRawLibraryError ==
    \A t \in Tasks :
        Finished(t) => req[t].res \notin {"HTTPStatusError", "TransportError"}

\* C11: no retry beyond the single fallback: one fetch operation issues at
\* most two HTTP requests, and exactly one when its transport had already
\* met a Digest 401 (the spec's Basic mode) or when the first response is
\* anything other than 401 (timeout, connection failure, 5xx, success).
C11_NoRetry ==
    \A t \in Tasks :
        /\ req[t].sent <= 2
        /\ (Finished(t) /\ req[t].sent >= 1
                /\ (req[t].resp # 401 \/ req[t].after401))
               => req[t].sent = 1

\* an operation ended with a 5xx, another one with no response at all
C11_Witness ==
    \E t, u \in Tasks :
        /\ Finished(t) /\ req[t].resp = 500 /\ req[t].sent = 1
        /\ Finished(u) /\ req[u].sent = 1 /\ req[u].res = "TransportError"

\* the names config.cameras registers
ConfiguredNames == {cfg[j].name : j \in 1..Len(cfg)}

\* C12: get_camera is an exact, case-sensitive lookup: a registered name
\* gives the transport of that name; any other name (one that differs from
\* a registered name only in letter case included) gives the not-found
\* error, whose message has all registered names, each once, in sorted
\* order, and no transport.
C12_ExactLookup ==
    rout.op = "get_camera" =>
        IF rout.name \in ConfiguredNames
        THEN /\ rout.kind = "ok"
             /\ Len(rout.cam) = 1
             /\ rout.cam[1].config.name = rout.name
        ELSE /\ rout.kind = "ValueError"
             /\ rout.cam = <<>>
             /\ {rout.available[i] : i \in 1..Len(rout.available)} = ConfiguredNames
             /\ Len(rout.available) = Cardinality(ConfiguredNames)
             /\ \A i, j \in 1..Len(rout.available) :
                    i < j => Less(rout.available[i], rout.available[j])

\* "ca" is asked of a registry that has "Ca" and one more name, registered
\* in an order that is not the sorted one
C12_Witness ==
    /\ rout.op = "get_camera" /\ rout.kind = "ValueError"
    /\ \E j \in 1..Len(cfg) :
            cfg[j].name # rout.name /\ LowerStr(cfg[j].name) = LowerStr(rout.name)
    /\ Len(rout.available) = 2
    /\ cameras[1].key = rout.available[2]

\* C13: list_cameras gives entries with the keys name, host and port and
\* nothing else (no username, password or TLS setting), and two registries
\* that differ only in username, password, TLS setting or type give the
\* same list.
C13_ListHidesCredentials ==
    rout.op = "list_cameras" =>
        /\ \A i \in 1..Len(rout.list) :
                DOMAIN rout.list[i] = {"name", "host", "port"}
        /\ \A v \in Variants(cfg) : ListCameras(Build(v, Timeout)) = rout.list

\* two cameras were listed, and another registry has other credentials
C13_Witness ==
    /\ rout.op = "list_cameras" /\ Len(rout.list) = 2
    /\ \E v \in Variants(cfg) :
            /\ v[1].password # cfg[1].password
            /\ v[2].username # cfg[2].username
            /\ v[1].verify_ssl # cfg[1].verify_ssl

\* where config.cameras first has the name n
FirstIndex(n) ==
    CHOOSE j \in 1..Len(cfg) :
        cfg[j].name = n /\ \A k \in 1..(j - 1) : cfg[k].name # n

\* C14: list_cameras gives one entry per registered transport, in the
\* order of registration, each with the name, host and port of that
\* transport's identity.
C14_ListInRegistrationOrder ==
    rout.op = "list_cameras" =>
        /\ Len(rout.list) = Cardinality(ConfiguredNames)
        /\ Len(rout.list) = Len(cameras)
        /\ \A i \in 1..Len(rout.list) :
                /\ rout.list[i].name = cameras[i].key
                /\ rout.list[i].name = cameras[i].cam.config.name
                /\ rout.list[i].host = cameras[i].cam.config.host
                /\ rout.list[i].port = cameras[i].cam.config.port
                /\ rout.list[i].host = cameras[i].cam.base_url.host
                /\ rout.list[i].port = cameras[i].cam.base_url.port
        /\ \A i, j \in 1..Len(rout.list) :
                i < j => FirstIndex(rout.list[i].name) < FirstIndex(rout.list[j].name)

\* two transports were listed whose registration order is not the sorted one
C14_Witness ==
    /\ rout.op = "list_cameras" /\ Len(rout.list) = 2
    /\ Less(rout.list[2].name, rout.list[1].name)
    /\ rout.list[1].host # rout.list[2].host

\* C15: a stopFind failure never propagates: once doFind has succeeded, a
\* finished log search gives doFind's parsed entries and no error, whether
\* stopFind succeeded, came back with an error status or failed at the
\* I/O level.
C15_StopFindNeverPropagates ==
    \A t \in Tasks :
        (tool[t].tool = "search_logs" /\ tool[t].gotFind /\ tool[t].pc = "done")
            => /\ tool[t].stop # "none"
               /\ tool[t].error = <<>>
               /\ tool[t].value = tool[t].find
               /\ tool[t].find # <<>>

\* one search ended with stopFind refused by status, another with stopFind
\* failing at the I/O level
C15_Witness ==
    \E t, u \in Tasks :
        /\ tool[t].pc = "done" /\ tool[t].gotFind /\ tool[t].stop = "HTTPStatusError"
        /\ tool[u].pc = "done" /\ tool[u].gotFind /\ tool[u].stop = "TransportError"

\* a line `token=<value>` with a value
IsTokenLine(line) ==
    line.eq /\ line.left \in {"token", "Token"} /\ Strip(line.right) # ""
HasTokenLine(body) == \E i \in 1..Len(body) : IsTokenLine(body[i])

\* C16: when the startFind response has no token, the search ends with the
\* protocol error, the raw startFind response attached, and neither doFind
\* nor stopFind is issued.
C16_NoTokenNoFind ==
    \A t \in Tasks :
        (tool[t].tool = "search_logs" /\ tool[t].gotStart /\ ~HasTokenLine(tool[t].raw))
            => /\ tool[t].pc = "done"
               /\ tool[t].error = <<NoTokenError>>
               /\ tool[t].attached = <<tool[t].raw>>
               /\ \A i \in 1..Len(tool[t].issued) :
                      tool[t].issued[i].ep \notin {"doFind", "stopFind"}

\* av has every registered name once, in sorted order
IsSortedNames(av) ==
    /\ {av[i] : i \in 1..Len(av)} = ConfiguredNames
    /\ Len(av) = Cardinality(ConfiguredNames)
    /\ \A i, j \in 1..Len(av) : i < j => Less(av[i], av[j])

\* C17: a camera operation called with an unknown name is recoverable per
\* call: it ends at once with the not-found error that names the asked
\* camera and the sorted registered names, no HTTP request goes out, the
\* registry and every transport stay as they were, and a later call of the
\* same caller with a valid name gets through to its camera.
C17_UnknownNameRecoverable ==
    /\ [][\A t \in Tasks :
            (tool'[t] # tool[t] /\ tool[t].pc \in {"idle", "done"}
                /\ tool'[t].name \notin ConfiguredNames)
              => /\ tool'[t].pc = "done"
                 /\ Len(tool'[t].error) = 1
                 /\ tool'[t].error[1].type = "ValueError"
                 /\ tool'[t].error[1].name = tool'[t].name
                 /\ IsSortedNames(tool'[t].error[1].available)
                 /\ tool'[t].issued = <<>>
                 /\ tool'[t].value = <<>>
                 /\ UNCHANGED <<tvars, cfg, cameras>>]_vars
    /\ [](\A t \in Tasks :
            (tool[t].afterNotFound /\ tool[t].name \in ConfiguredNames)
              => Len(tool[t].issued) >= 1)

\* a caller whose call with an unknown name failed has since got the
\* system information of a registered camera
C17_Witness ==
    \E t \in Tasks :
        /\ tool[t].afterNotFound /\ tool[t].pc = "done"
        /\ tool[t].tool = "get_system_info" /\ tool[t].value # <<>>

\* the identity a name stands for: its last entry in config.cameras
LastConfig(n) ==
    cfg[CHOOSE j \in 1..Len(cfg) :
            cfg[j].name = n /\ \A k \in (j + 1)..Len(cfg) : cfg[k].name # n]

\* the origin that goes with an identity: https for port 443 alone
OriginOf(id) ==
    [scheme |-> IF id.port = 443 THEN "https" ELSE "http",
     host |-> id.host, port |-> id.port]

\* C18: a transport whose identity has port 443 has an https origin, one
\* with any other port an http origin; the origin is scheme://host:port of
\* the identity, at every moment of the transport's life, also as
\* get_camera hands the transport ret.
C18_SchemeByPort ==
    /\ \A i \in 1..Len(cameras) :
            /\ cameras[i].cam.config = LastConfig(cameras[i].key)
            /\ cameras[i].cam.base_url = OriginOf(LastConfig(cameras[i].key))
    /\ (rout.op = "get_camera" /\ rout.kind = "ok")
            => rout.cam[1].base_url = OriginOf(LastConfig(rout.name))

\* get_camera gave a transport of port 443, next to one of port 8443
C18_Witness ==
    /\ rout.op = "get_camera" /\ rout.kind = "ok"
    /\ rout.cam[1].config.port = 443
    /\ rout.cam[1].base_url.scheme = "https"
    /\ \E i \in 1..Len(cameras) :
            cameras[i].cam.config.port = 8443 /\ cameras[i].cam.base_url.scheme = "http"

\* the last request was turned away with the error of its kind, call_next
\* not invoked; it was handed to call_next as it came, once, and what
\* call_next gave was returned
TurnedAway ==
    /\ mwout.outcome = ErrorOfKind(mwout.kind)
    /\ mwout.nexts = 0
    /\ mwout.passed = {}
    /\ mwout.returned = "none"
PassedThrough ==
    /\ mwout.outcome = "passed"
    /\ mwout.nexts = 1
    /\ mwout.passed = {[kind |-> mwout.kind, tags |-> mwout.tags]}
    /\ mwout.returned = mwout.next

Malformed(e) ==
    \/ ~e.mapping
    \/ \E f \in {"name", "host", "username", "password"} : e[f] = <<>>
    \/ ~e.port.ok

\* the file defines no camera, or has a malformed entry
BadFile(f) ==
    \/ f.kind # "mapping" \/ ~f.hasCameras \/ f.cameras = <<>>
    \/ \E i \in 1..Len(f.cameras) : Malformed(f.cameras[i])

\* C21: a startup configuration with no cameras defined (no cameras list or
\* an empty one) or with a malformed camera entry ends startup with an
\* error: no registry and no transport is made from it.
C21_BadConfigAborts ==
    (boot.status # "none" /\ BadFile(raw))
        => /\ boot.status = "failed"
           /\ boot.error # "ok"
           /\ cfg = <<>> /\ cameras = <<>>
           /\ rout.op = "none"
           /\ \A c \in Cams : client[c] = None /\ conns[c] = <<>>

\* startup ended on a file whose first entry is sound and whose second
\* lacks its host
C21_Witness ==
    /\ boot.status = "failed" /\ boot.error = "ValidationError"
    /\ Len(raw.cameras) = 2
    /\ ~Malformed(raw.cameras[1])
    /\ raw.cameras[2].host = <<>>

\* the lines of the input that are not blank, trimmed, in their order
RECURSIVE NonBlank(_)
NonBlank(ls) ==
    IF ls = <<>> THEN <<>>
    ELSE (IF Head(ls).body = <<>> THEN <<>> ELSE <<Head(ls).body>>) \o NonBlank(Tail(ls))

\* what stands before the first "=" of a line and what stands after it
FirstEq(b) == CHOOSE i \in 1..Len(b) : b[i] = "=" /\ \A j \in 1..(i - 1) : b[j] # "="
BeforeEq(b) == SubSeq(b, 1, FirstEq(b) - 1)
AfterEq(b) == SubSeq(b, FirstEq(b) + 1, Len(b))

\* b without the one prefix p it starts with
Without(b, p) == SubSeq(b, Len(p) + 1, Len(b))
OnePrefixOff(k) ==
    IF Len(k) >= 6 /\ SubSeq(k, 1, 6) = TableDot THEN Without(k, TableDot)
    ELSE IF Len(k) >= 7 /\ SubSeq(k, 1, 7) = StatusDot THEN Without(k, StatusDot)
    ELSE k

\* the key and the value a trimmed line stands for
KeyOf(b) == IF HasEq(b) THEN OnePrefixOff(BeforeEq(b)) ELSE b
ValueOf(b) == IF HasEq(b) THEN AfterEq(b) ELSE b

\* line i is the last of nb with its key
LastOfKey(nb, i) == \A j \in (i + 1)..Len(nb) : KeyOf(nb[j]) # KeyOf(nb[i])

ParsedResponse == inp.fn = "parse_dahua_response" /\ ret.done

\* C22: a line with "=" is split on the first "=" only: for the last line
\* of each key, the value of the entry is everything after the first "=",
\* further "=" included, and key, "=" and value together are the line
\* (less the prefix taken off the key).
C22_SplitOnFirstEq ==
    ParsedResponse =>
        LET nb == NonBlank(inp.lines)
        IN  \A i \in 1..Len(nb) :
                (HasEq(nb[i]) /\ LastOfKey(nb, i)) =>
                    \E j \in 1..Len(ret.mapping) :
                        /\ ret.mapping[j].value = AfterEq(nb[i])
                        /\ ret.mapping[j].key = KeyOf(nb[i])
                        /\ \A k \in 1..Len(ret.mapping[j].key) :
                                ret.mapping[j].key[k] # "="

\* the line k=v=w gave the entry k with the value v=w
C22_Witness ==
    /\ ParsedResponse
    /\ \E i \in 1..Len(inp.lines) : inp.lines[i].body = <<"k", "=", "v", "=", "w">>
    /\ \E j \in 1..Len(ret.mapping) :
            ret.mapping[j] = [key |-> <<"k">>, value |-> <<"v", "=", "w">>]

\* C23: exactly one leading prefix "table." or "status." is taken off a
\* key, never more: status.status.k gives status.k, table.status.k gives
\* status.k, and a key without such a prefix stays as it is; so the keys
\* of the result are those of the lines, each less one prefix.
C23_OnePrefixOnly ==
    ParsedResponse =>
        LET nb == NonBlank(inp.lines)
        IN  /\ {ret.mapping[j].key : j \in 1..Len(ret.mapping)}
                    = {KeyOf(nb[i]) : i \in 1..Len(nb)}
            /\ \A i \in 1..Len(nb) :
                /\ StartsWith(nb[i], StatusDot \o StatusDot \o <<"k", "=">>)
                    => \E j \in 1..Len(ret.mapping) :
                            ret.mapping[j].key = StatusDot \o <<"k">>
                /\ StartsWith(nb[i], TableDot \o StatusDot \o <<"k", "=">>)
                    => \E j \in 1..Len(ret.mapping) :
                            ret.mapping[j].key = StatusDot \o <<"k">>
                /\ StartsWith(nb[i], <<"k", "=">>)
                    => \E j \in 1..Len(ret.mapping) : ret.mapping[j].key = <<"k">>

\* status.status.k=v and table.status.k=v=w gave the one key status.k
C23_Witness ==
    /\ ParsedResponse
    /\ Len(inp.lines) = 2
    /\ inp.lines[1].body = StatusDot \o StatusDot \o <<"k", "=", "v">>
    /\ inp.lines[2].body = TableDot \o StatusDot \o <<"k", "=", "v", "=", "w">>
    /\ ret.mapping = <<[key |-> StatusDot \o <<"k">>, value |-> <<"v", "=", "w">>]>>

\* the keys of the lines nb in the order they first come in
RECURSIVE FirstSeen(_, _)
FirstSeen(nb, seen) ==
    IF nb = <<>> THEN <<>>
    ELSE IF KeyOf(Head(nb)) \in seen THEN FirstSeen(Tail(nb), seen)
    ELSE <<KeyOf(Head(nb))>> \o FirstSeen(Tail(nb), seen \cup {KeyOf(Head(nb))})

\* C24: the result has one entry per non-blank line, in the order of the
\* lines (a key stands where it first came), a later line with a key that
\* is there overwrites its value, and blank lines give no entry.
C24_OrderedLastWins ==
    ParsedResponse =>
        LET nb == NonBlank(inp.lines)
            keys == FirstSeen(nb, {})
        IN  /\ Len(ret.mapping) = Len(keys)
            /\ \A j \in 1..Len(keys) : ret.mapping[j].key = keys[j]
            /\ \A i \in 1..Len(nb) :
                    LastOfKey(nb, i) =>
                        \E j \in 1..Len(ret.mapping) :
                            ret.mapping[j] = [key |-> KeyOf(nb[i]), value |-> ValueOf(nb[i])]

\* k=v, then table.k=v=w: one entry k, with the later value
C24_Witness ==
    /\ ParsedResponse
    /\ Len(inp.lines) = 2
    /\ inp.lines[1].body = <<"k", "=", "v">>
    /\ inp.lines[2].body = TableDot \o <<"k", "=", "v", "=", "w">>
    /\ ret.mapping = <<[key |-> <<"k">>, value |-> <<"v", "=", "w">>]>>

\* C25: parse_dahua_response is total: every text gives a mapping (each
\* entry a key with its value, no key twice); a non-blank line without "="
\* is stored with the trimmed line as key and as value; a text that is
\* empty or all blank gives the empty mapping.
C25_ParseTotal ==
    ParsedResponse =>
        LET nb == NonBlank(inp.lines)
        IN  /\ \A j \in 1..Len(ret.mapping) :
                    /\ DOMAIN ret.mapping[j] = {"key", "value"}
                    /\ ret.mapping[j].key # <<>> \/ ret.mapping[j].value # <<>>
                    /\ \A k \in 1..Len(ret.mapping) :
                            ret.mapping[k].key = ret.mapping[j].key => k = j
            /\ nb = <<>> => ret.mapping = <<>>
            /\ nb # <<>> => ret.mapping # <<>>
            /\ \A i \in 1..Len(nb) :
                    (~HasEq(nb[i]) /\ LastOfKey(nb, i)) =>
                        \E j \in 1..Len(ret.mapping) :
                            ret.mapping[j] = [key |-> nb[i], value |-> nb[i]]

\* a padded line "table.k" without "=" after a blank one gave the entry
\* table.k -> table.k
C25_Witness ==
    /\ ParsedResponse
    /\ Len(inp.lines) = 2
    /\ inp.lines[1].body = <<>> /\ inp.lines[1].pad = <<" ">>
    /\ inp.lines[2] = [pad |-> <<" ">>, body |-> TableDot \o <<"k">>]
    /\ ret.mapping = <<[key |-> TableDot \o <<"k">>, value |-> TableDot \o <<"k">>]>>

\* x without the white space around it, in lower case, as the claim reads it
Trimmed(x) ==
    LET idx == {i \in 1..Len(x) : x[i] \notin Whitespace}
    IN  IF idx = {} THEN <<>>
        ELSE SubSeq(x, CHOOSE i \in idx : \A j \in idx : i <= j,
                       CHOOSE i \in idx : \A j \in idx : i >= j)
IsTruthy(x) ==
    LET y == Trimmed(x)
    IN  \/ Len(y) = 1 /\ y[1] = "1"
        \/ Len(y) = 4 /\ y[1] \in {"t", "T"} /\ y[2] \in {"r", "R"}
              /\ y[3] \in {"u", "U"} /\ y[4] \in {"e", "E"}
        \/ Len(y) = 3 /\ y[1] \in {"y", "Y"} /\ y[2] \in {"e", "E"}
              /\ y[3] \in {"s", "S"}
        \/ Len(y) = 2 /\ y[1] \in {"o", "O"} /\ y[2] \in {"n", "N"}

\* C26: parse_bool gives the default when the value is None; otherwise
\* true exactly when the value, trimmed and case-folded, is one of "1",
\* "true", "yes", "on", and false otherwise; it never raises.
C26_ParseBool ==
    (inp.fn = "parse_bool" /\ ret.done) =>
        /\ ret.bool \in BOOLEAN
        /\ IF inp.val = <<>> THEN ret.bool = inp.default
           ELSE ret.bool = IsTruthy(inp.val[1])

\* " TRUE" with a tab behind it gave true though the default is false
C26_Witness ==
    /\ inp.fn = "parse_bool" /\ ret.done /\ ret.bool /\ ~inp.default
    /\ inp.val = <<<<" ", "T", "R", "U", "E", "\t">>>>

\* C27: a request that succeeds changes neither the auth scheme nor the
\* connection handle of its transport: the handle is the one it was, and
\* every connection of the transport keeps its scheme (Digest stays
\* Digest, Basic stays Basic).
C27_SuccessKeepsConnection ==
    [][\A t \in Tasks :
          (req[t].pc = "wait" /\ req'[t].pc = "done" /\ IsSuccess(req'[t].resp)) =>
              /\ client'[req[t].cam] = client[req[t].cam]
              /\ Len(conns'[req[t].cam]) = Len(conns[req[t].cam])
              /\ \A i \in DOMAIN conns[req[t].cam] :
                     conns'[req[t].cam][i].auth = conns[req[t].cam][i].auth
              /\ had401'[req[t].cam] = had401[req[t].cam]
      ]_vars

\* a request got 200 on the Digest connection that is still the handle of
\* its transport, while another request waits on that connection
C27_Witness ==
    \E t, u \in Tasks :
        /\ Finished(t) /\ req[t].resp = 200 /\ req[t].sent = 1
        /\ client[req[t].cam] = req[t].conn
        /\ AuthOf(t) = "Digest"
        /\ req[u].pc = "wait" /\ req[u].cam = req[t].cam /\ req[u].conn = req[t].conn

\* the results of two operations are the same but for the decoding of a
\* successful body
SameButDecoding(a, b) ==
    IF a.res \in {"mapping", "text", "bytes"}
    THEN a.res = Decode(a.op) /\ b.res = Decode(b.op)
    ELSE b.res = a.res

C29_DataOnlyOn2xx ==
    \A t \in Tasks :
        Finished(t) =>
            /\ req[t].res \in {"mapping", "text", "bytes"}
                  => /\ req[t].sent >= 1
                     /\ req[t].resp \in 200..299
                     /\ req[t].res = Decode(req[t].op)
            /\ req[t].resp \notin 200..299
                  => req[t].res \in {"HTTPStatusError", "TransportError",
                                     "RuntimeError", "AttributeError"}

\* one operation ended with an error on a 500, another returned the
\* payload of a 200
C29_Witness ==
    \E t, u \in Tasks :
        /\ Finished(t) /\ req[t].resp = 500 /\ req[t].res = "HTTPStatusError"
        /\ Finished(u) /\ req[u].resp = 200 /\ req[u].res = "bytes"

\* the requests of a log search go out in the order startFind, doFind,
\* stopFind: doFind after startFind's response gave the search its token
\* and with that token, stopFind after doFind's response and with the
\* token of doFind
FindOrder(call) ==
    LET is == call.issued
    IN  /\ Len(is) <= 3
        /\ Len(is) >= 1 => (is[1].ep = "startFind" /\ is[1].token = <<>>)
        /\ Len(is) >= 2 =>
              /\ is[2].ep = "doFind" /\ call.gotStart
              /\ call.token # <<>> /\ is[2].token = call.token
        /\ Len(is) >= 3 =>
              /\ is[3].ep = "stopFind" /\ call.gotFind
              /\ is[3].token = is[2].token

\* the token a request carries is the value of a token line of the
\* startFind response of the search
FromStartFind(call, tk) ==
    \E i \in 1..Len(call.raw) :
        IsTokenLine(call.raw[i]) /\ tk = <<Strip(call.raw[i].right)>>

\* C30: in a log search doFind is issued only after startFind has returned
\* a token and carries exactly that token; stopFind is issued only after
\* doFind and with the same token; no doFind or stopFind goes out with a
\* token the startFind of the same search did not return.
C30_TokenFromStartFind ==
    \A t \in Tasks :
        tool[t].tool = "search_logs" =>
            /\ FindOrder(tool[t])
            /\ \A i \in 2..Len(tool[t].issued) :
                    FromStartFind(tool[t], tool[t].issued[i].token)

\* the order and the passing on of the token alone
FindOrderHolds == \A t \in Tasks : tool[t].tool = "search_logs" => FindOrder(tool[t])

\* C31: whenever startFind of a log search returned a token, stopFind is
\* issued with that token before the search returns, also when doFind
\* fails (error status or I/O failure): no search that got a token ends
\* without having attempted the cleanup.
C31_StopFindAlwaysAttempted ==
    \A t \in Tasks :
        (tool[t].tool = "search_logs" /\ tool[t].pc = "done"
            /\ tool[t].gotStart /\ HasTokenLine(tool[t].raw))
          => \E i \in 1..Len(tool[t].issued) :
                /\ tool[t].issued[i].ep = "stopFind"
                /\ FromStartFind(tool[t], tool[t].issued[i].token)

\* C32: when config.cameras has a name more than once, the later identity
\* wins: get_camera of that name gives the transport built from the last
\* identity with the name, and list_cameras shows the name once, with the
\* host and port of that last identity.
C32_LaterDuplicateWins ==
    /\ (rout.op = "get_camera" /\ rout.name \in ConfiguredNames)
          => /\ rout.kind = "ok"
             /\ rout.cam = <<DahuaCamera(LastConfig(rout.name), Timeout)>>
    /\ rout.op = "list_cameras"
          => \A n \in ConfiguredNames :
                /\ Cardinality({i \in 1..Len(rout.list) : rout.list[i].name = n}) = 1
                /\ \A i \in 1..Len(rout.list) :
                      rout.list[i].name = n =>
                          /\ rout.list[i].host = LastConfig(n).host
                          /\ rout.list[i].port = LastConfig(n).port

\* a name configured twice, with two hosts and two ports, was listed
C32_Witness ==
    /\ rout.op = "list_cameras" /\ Len(rout.list) = 1
    /\ Len(cfg) = 2 /\ cfg[1].name = cfg[2].name
    /\ cfg[1].host # cfg[2].host /\ cfg[1].port # cfg[2].port
    /\ rout.list[1].host = cfg[2].host

\* C33: after construction the registry never changes: get_camera,
\* list_cameras, close_all and every transport request, successful or
\* failed, leave the registered names and the transport of each name as
\* they were, so two get_camera of one name give the same transport.
C33_RegistryImmutable ==
    [][/\ cameras' = cameras
       /\ cfg' = cfg
       /\ \A name \in ToolAskedNames :
              /\ GetCamera(cameras', name).kind = GetCamera(cameras, name).kind
              /\ GetCamera(cameras', name).idx = GetCamera(cameras, name).idx
      ]_vars

\* get_camera gave a transport after a close_all had run to its end and a
\* request on that transport had failed
C33_Witness ==
    /\ rout.op = "get_camera" /\ rout.kind = "ok"
    /\ cl[1].pc = "done"
    /\ \E t \in Tasks :
          /\ Finished(t) /\ req[t].resp = 500
          /\ req[t].cam = GetCamera(cameras, rout.name).idx
    /\ Len(cameras) = NumCams

\* the connections of transport c that are open
Live(c) == {i \in DOMAIN conns[c] : ~conns[c][i].closed}

\* C34: in every reachable state a transport has at most one live
\* connection, and every connection it ever created is its current handle
\* or has been closed: no interleaving of requests and closes leaves an
\* open connection the transport no longer refers to.
C34_NoLeakedConnection ==
    \A c \in Cams :
        /\ Cardinality(Live(c)) <= 1
        /\ \A i \in Live(c) : client[c] = i

\* transport d is as it was: its handle, its connections with their
\* schemes, and whether it met a 401
Untouched(d) ==
    /\ client'[d] = client[d]
    /\ conns'[d] = conns[d]
    /\ had401'[d] = had401[d]

\* the first camera a step of close_all call k works on: the one whose
\* close it resumes, or the first of the registry
ResumedAt(k) == IF cl[k].pc = "await" THEN cl[k].pos ELSE 1

\* C35: transports of different cameras are independent: a request, its
\* response or error, or a close on one transport leaves the connection
\* handle and the auth scheme of every other transport as they were.
C35_TransportsIndependent ==
    [][/\ \A t \in Tasks :
            req'[t] # req[t] =>
                \A d \in Cams : d # req'[t].cam => Untouched(d)
       /\ \A k \in Closers :
            cl'[k] # cl[k] =>
                \A d \in Cams :
                    (d < ResumedAt(k) \/ d > cl'[k].pos) => Untouched(d)
      ]_vars

\* a request on the first transport ended with a 401 and a close_all waits
\* for that transport's connection to close, while the second transport
\* has its open connection and a request in flight
C35_Witness ==
    /\ \E k \in Closers : cl[k].pc = "await" /\ cl[k].pos = 1
    /\ conns[1][1].closed
    /\ client[2] = 1 /\ ~conns[2][1].closed
    /\ \E t, u \in Tasks :
          /\ Finished(t) /\ req[t].cam = 1 /\ req[t].resp = 401
          /\ req[u].pc = "wait" /\ req[u].cam = 2

\* the CGI actions that change the state of a camera
StateChanging == {"setConfig", "reboot"}

\* every tool that issues a state-changing request lacks the tag
WriteToolsUntagged ==
    \A tl \in ToolDefs : tl.action \in StateChanging => "read-only" \notin tl.tags

C37_ListAgreesWithCall ==
    (called.mw # "none" /\ listed.mw = called.mw /\ listed.ctx = called.ctx)
        => (called.tool \in listed.names <=> called.passed)

\* with "destructive" disabled, a listing with a context left set_config
\* out and kept set_record_mode, and the call of set_config was rejected
C37_Witness ==
    /\ called.mw = "disabled-tags" /\ listed.mw = "disabled-tags"
    /\ called.ctx /\ listed.ctx /\ dtags = {"destructive"}
    /\ called.tool = "set_config" /\ ~called.passed
    /\ "set_config" \notin listed.names /\ "set_record_mode" \in listed.names

====
